---------------------------- MODULE Spec2Model ----------------------------
(***************************************************************************)
(* Model of the data layer of the records application (src/database.py):   *)
(* the connection pool, the retry-wrapped executor execute_with_retry, the *)
(* schema manager create_tables and the record repository (add_record,     *)
(* get_all_records, get_record, update_record, search_records,             *)
(* delete_record, delete_all_records) over the three tables persons,       *)
(* contact_info and documents.                                             *)
(*                                                                         *)
(* The backing store is PostgreSQL at READ COMMITTED: a transaction's      *)
(* writes are private until its commit, every statement reads the          *)
(* committed tables overlaid with the transaction's own writes, and row    *)
(* locks make a statement wait for a conflicting open transaction.         *)
(***************************************************************************)
EXTENDS Integers, Sequences, FiniteSets, Bags, TLC

(***************************************************************************)
(* Bounds of the model.                                                    *)
(***************************************************************************)
\* persons.id values the SERIAL sequence may hand out before adds are cut off
MaxId == 2
\* readings of datetime.now() range over 0..MaxClock
MaxClock == 1
\* longest search query, in characters
MaxQueryLen == 1
\* repository calls made in a run of two concurrent callers
MaxConcCalls == 2
\* failures outside the data injected in a run of two concurrent callers
MaxConcFaults == 3

\* the largest persons.id the sequence hands out to concurrent callers
MaxConcId == 3

(***************************************************************************)
(* Program constants.                                                      *)
(***************************************************************************)
\* execute_with_retry(..., max_retries: int = 3)
max_retries == 3

(***************************************************************************)
(* Values.  Python's None and SQL NULL are the string "None"; a text value *)
(* is a string, except full_name, which is the sequence of its characters  *)
(* (search_records matches it against a pattern character by character).   *)
(* dob is tagged with its Python type: the form submits a 'YYYY-MM-DD'     *)
(* str, the DATE column yields a datetime.date.                            *)
(***************************************************************************)
None == "None"

\* what datetime.now().date() reads in the entry form
Today == "2024-06-01"

ValidDates == {"2000-01-01", Today}

StrDob(s) == [kind |-> "str", v |-> s]

DateDob(s) == [kind |-> "date", v |-> s]

ContactTypes == {"mobile", "whatsapp", "facebook", "website"}

\* the payload key that carries the values of a contact type
ContactKey(t) ==
  CASE t = "mobile" -> "mobile_numbers"
    [] t = "whatsapp" -> "whatsapp_numbers"
    [] t = "facebook" -> "facebook_links"
    [] t = "website" -> "website_links"

RequiredKeys ==
  {"full_name", "father_name", "mother_name", "dob", "gender", "nid",
   "permanent_address", "present_address"}

\* NOT NULL text columns of persons that the model keeps as strings
NotNullStrKeys ==
  {"father_name", "mother_name", "gender", "nid", "permanent_address",
   "present_address"}

(***************************************************************************)
(* Sequences, sets and bags.                                               *)
(***************************************************************************)
Range(s) == {s[i] : i \in DOMAIN s}

\* the elements of a finite set in some order (SQL guarantees none)
SetToSeq(S) == CHOOSE s \in [1..Cardinality(S) -> S] : Range(s) = S

RECURSIVE SeqToBag(_)
SeqToBag(s) ==
  IF s = <<>> THEN EmptyBag ELSE SetToBag({Head(s)}) (+) SeqToBag(Tail(s))

\* Python's list(filter(None, xs)): the truthy elements, in order
FilterNone(xs) == SelectSeq(xs, LAMBDA x : x # "" /\ x # None)

\* Python's dict.get(key, default)
DictGet(d, key, default) == IF key \in DOMAIN d THEN d[key] ELSE default


(***************************************************************************)
(* Inputs.  A payload is the dict handed to add_record / update_record: a  *)
(* function from the keys it carries to their values.                      *)
(***************************************************************************)
WithoutKeys(d, ks) == [k \in DOMAIN d \ ks |-> d[k]]

\* what render_entry_form returns (src/components.py:112-130), less 'id'
FormPayload(name, mobiles, pdfs) ==
  [full_name |-> name, father_name |-> "f", mother_name |-> "m",
   dob |-> StrDob("2000-01-01"), gender |-> "Male", nid |-> "n1",
   voter_no |-> "", permanent_address |-> "pa", present_address |-> "pr",
   image_data |-> None, description |-> "",
   mobile_numbers |-> mobiles, whatsapp_numbers |-> <<>>,
   facebook_links |-> <<>>, website_links |-> <<>>, pdf_urls |-> pdfs]

\* every contact kind and a document filled in
PFull ==
  [FormPayload(<<"a", "b">>, <<"m1">>, <<"u1">>) EXCEPT
     !.whatsapp_numbers = <<"w1">>, !.facebook_links = <<"f1">>,
     !.website_links = <<"s1">>, !.image_data = "img", !.voter_no = "v1"]

\* empty child lists
PBare == FormPayload(<<"A">>, <<>>, <<>>)

\* a document and no contact
PDoc == FormPayload(<<"b">>, <<>>, <<"u2">>)

\* a direct caller's dict: duplicate values in a child list, a name holding
\* a pattern character, an empty required field, and no 'pdf_urls',
\* 'voter_no', 'description' or 'image_data' key
PDup ==
  WithoutKeys(
    [FormPayload(<<"_", "b">>, <<"m2", "m2">>, <<>>) EXCEPT
       !.whatsapp_numbers = <<"w2">>, !.facebook_links = <<"f2">>,
       !.website_links = <<"s2">>, !.nid = ""],
    {"pdf_urls", "voter_no", "description", "image_data"})

\* a required key is missing: record['full_name'] raises KeyError
PNoName == WithoutKeys(PBare, {"full_name"})

\* a required field is None: the column's NOT NULL constraint rejects it
PNullNid == [PFull EXCEPT !.nid = None]

Payloads == {PFull, PBare, PDup, PNoName, PNullNid}

\* characters of names and queries: letters in both cases and the LIKE
\* pattern characters
Chars == {"a", "A", "b", "_", "%", "\\"}

RECURSIVE StringsUpTo(_)
StringsUpTo(n) ==
  IF n = 0 THEN {<<>>}
  ELSE LET shorter == StringsUpTo(n - 1)
       IN  shorter \cup {Append(s, ch) : s \in shorter, ch \in Chars}

\* search_records is reached with a non-empty query only (src/app.py:73)
Queries == StringsUpTo(MaxQueryLen) \ {<<>>}

Ids == 1..MaxId


Callers == {1, 2}

(***************************************************************************)
(* State.                                                                  *)
(***************************************************************************)
VARIABLES
  persons,        \* committed persons table: id -> row
  contact_info,   \* committed contact_info table: a bag of rows
  documents,      \* committed documents table: a bag of rows
  persons_id_seq, \* next value of the SERIAL sequence of persons.id
  clock,          \* what datetime.now() reads
  pool_used,      \* connections the pool has handed out and not got back
  active,         \* the callers of this run (fixed by the initial state)
  calls_left,     \* calls a run of concurrent callers may still make
  faults_left,    \* failures a run of concurrent callers may still meet
  pc,             \* where each caller stands in execute_with_retry
  call,           \* the repository call each caller is in (or made last)
  attempt,        \* the loop variable of execute_with_retry
  conn,           \* whether the attempt's conn is a connection (not None)
  tx,             \* the writes and locks of the attempt's open transaction
  ip,             \* the next statement of the operation to execute
  person_id,      \* _add_record's local person_id
  result,         \* the value the operation returned
  exit,           \* how the attempt leaves the try statement
  error,          \* the class of the exception the attempt caught
  ret,            \* how the public method ended, for its caller
  hist,           \* per call: commits applied, failures met, tables at its start
  session_state,  \* st.session_state of the browser session: key -> value
  script,         \* where the run of the app.py script stands
  input,          \* the widget values the run of the script reads
  records         \* the script's local "records" of the View Records page

vars ==
  <<persons, contact_info, documents, persons_id_seq, clock, pool_used,
    active, calls_left, faults_left, pc, call, attempt, conn, tx, ip,
    person_id, result, exit, error, ret, hist, session_state, script,
    input, records>>

\* the state of the Streamlit app on top of the repository
appvars == <<session_state, script, input, records>>

store == <<persons, contact_info, documents>>

(***************************************************************************)
(* Rows.                                                                   *)
(***************************************************************************)
ContactRow(pid, type, value) ==
  [person_id |-> pid, type |-> type, value |-> value]

DocRow(pid, url) == [person_id |-> pid, url |-> url, type |-> "pdf"]

\* the contact_info and documents rows payload P asks for, for Person id
ContactRowsOf(P, id) ==
  LET RowsOfKind(type) ==
        LET values == DictGet(P, ContactKey(type), <<>>)
        IN  SeqToBag([i \in DOMAIN values |-> ContactRow(id, type, values[i])])
  IN  RowsOfKind("mobile") (+) RowsOfKind("whatsapp")
        (+) RowsOfKind("facebook") (+) RowsOfKind("website")

DocRowsOf(P, id) ==
  LET urls == DictGet(P, "pdf_urls", <<>>)
  IN  SeqToBag([i \in DOMAIN urls |-> DocRow(id, urls[i])])

\* image_data = Json(record.get('image_data')) if record.get('image_data')
\* else None: a falsy value (None, '', {}) is stored as NULL
ImageData(data) ==
  LET v == DictGet(data, "image_data", None)
  IN  IF v \in {None, "", "{}"} THEN None ELSE v

\* the column values the INSERT / UPDATE statement binds, dob as the DATE
\* the column converts the string to
ScalarColumns(data) ==
  [full_name |-> data.full_name, father_name |-> data.father_name,
   mother_name |-> data.mother_name, dob |-> DateDob(data.dob.v),
   gender |-> data.gender, nid |-> data.nid,
   voter_no |-> DictGet(data, "voter_no", None),
   permanent_address |-> data.permanent_address,
   present_address |-> data.present_address,
   image_data |-> ImageData(data),
   description |-> DictGet(data, "description", None)]

\* the exception the persons INSERT / UPDATE raises for this payload, or ""
\* (rowExists: whether a row is written, so that NOT NULL is checked)
PersonStatementError(data, rowExists) ==
  IF RequiredKeys \ DOMAIN data # {} THEN "KeyError"
  ELSE IF data.dob.kind = "str" /\ data.dob.v \notin ValidDates
    THEN "DataError"
  ELSE IF rowExists /\ \E k \in NotNullStrKeys : data[k] = None
    THEN "IntegrityError"
  ELSE ""


(***************************************************************************)
(* Transactions.  An open transaction holds its own writes: rows it        *)
(* inserted, committed rows it updated or deleted (which it keeps locked), *)
(* the persons rows its child inserts reference (key-share locked), and    *)
(* the tables it dropped and created.  conn.commit() makes them the        *)
(* committed state, conn.rollback() discards them.                         *)
(***************************************************************************)
EmptyTx ==
  [touched |-> FALSE,
   ins_persons |-> <<>>, upd_persons |-> <<>>, del_persons |-> {},
   ks_persons |-> {},
   ins_contacts |-> EmptyBag, del_contacts |-> EmptyBag,
   ins_docs |-> EmptyBag, del_docs |-> EmptyBag,
   dropped |-> {}, created |-> {}]

\* the tables as a statement of transaction t sees them
VisPersons(t) ==
  LET kept == DOMAIN persons \ t.del_persons
  IN  [i \in kept \cup DOMAIN t.ins_persons |->
         IF i \in DOMAIN t.ins_persons THEN t.ins_persons[i]
         ELSE IF i \in DOMAIN t.upd_persons THEN t.upd_persons[i]
         ELSE persons[i]]

VisContacts(t) == (contact_info (-) t.del_contacts) (+) t.ins_contacts

VisDocs(t) == (documents (-) t.del_docs) (+) t.ins_docs

\* the rows of the child table B with (without) person_id = pid
OfPerson(B, pid) ==
  [r \in {x \in BagToSet(B) : x.person_id = pid} |-> CopiesIn(r, B)]

NotOfPerson(B, pid) ==
  [r \in {x \in BagToSet(B) : x.person_id # pid} |-> CopiesIn(r, B)]

\* DELETE FROM contact_info WHERE person_id = pid
DeleteContactsOf(t, pid) ==
  [t EXCEPT
     !.del_contacts = @ (+) OfPerson(contact_info (-) @, pid),
     !.ins_contacts = NotOfPerson(@, pid)]

\* DELETE FROM documents WHERE person_id = pid
DeleteDocsOf(t, pid) ==
  [t EXCEPT
     !.del_docs = @ (+) OfPerson(documents (-) @, pid),
     !.ins_docs = NotOfPerson(@, pid)]

\* a variant of DeletePerson for child tables declared without ON DELETE
\* CASCADE (and without the foreign key)
DeletePerson_NoCascade(t, pid) ==
  [t EXCEPT
     !.del_persons = @ \cup ({pid} \cap DOMAIN persons),
     !.ins_persons = [i \in DOMAIN @ \ {pid} |-> @[i]],
     !.upd_persons = [i \in DOMAIN @ \ {pid} |-> @[i]]]

\* DELETE FROM persons WHERE id = pid; the foreign keys of contact_info and
\* documents are ON DELETE CASCADE
DeletePerson(t, pid) ==
  LET u == DeleteDocsOf(DeleteContactsOf(t, pid), pid)
  IN  [u EXCEPT
         !.del_persons = @ \cup ({pid} \cap DOMAIN persons),
         !.ins_persons = [i \in DOMAIN @ \ {pid} |-> @[i]],
         !.upd_persons = [i \in DOMAIN @ \ {pid} |-> @[i]]]

\* the three tables once transaction t has committed
Committed(t) == <<VisPersons(t), VisContacts(t), VisDocs(t)>>

(***************************************************************************)
(* Locks.  A statement waits while another open transaction holds a lock   *)
(* that conflicts with one it needs: UPDATE and DELETE lock the rows they  *)
(* touch, a child INSERT key-share locks the persons row it references     *)
(* (which a DELETE of that row conflicts with, an UPDATE of its columns    *)
(* does not), DROP TABLE locks the table against every other transaction.  *)
(***************************************************************************)
NoLocks == [upd |-> {}, del |-> {}, ks |-> {}, contacts |-> {}, docs |-> {},
            ddl |-> FALSE]

Conflicts(need, o) ==
  \/ o.dropped # {}
  \/ need.ddl /\ o.touched
  \/ need.upd \cap (DOMAIN o.upd_persons \cup o.del_persons) # {}
  \/ need.del \cap
       (DOMAIN o.upd_persons \cup o.del_persons \cup o.ks_persons) # {}
  \/ need.ks \cap o.del_persons # {}
  \/ need.contacts \cap BagToSet(o.del_contacts) # {}
  \/ need.docs \cap BagToSet(o.del_docs) # {}

Blocked(c, need) == \E o \in active \ {c} : Conflicts(need, tx[o])


(***************************************************************************)
(* The SELECT of get_all_records, get_record and search_records, and the   *)
(* Python that turns the cursor's rows into the returned dicts.            *)
(***************************************************************************)
\* array_agg(DISTINCT ...) FILTER (WHERE ...): NULL over no rows, else the
\* distinct values
ArrayAgg(vals) == [null |-> vals = {}, vals |-> vals]

ContactAgg(t, pid, type) ==
  ArrayAgg({r.value : r \in {x \in BagToSet(VisContacts(t)) :
                               x.person_id = pid /\ x.type = type}})

DocAgg(t, pid) ==
  ArrayAgg({r.url : r \in {x \in BagToSet(VisDocs(t)) :
                             x.person_id = pid /\ x.type = "pdf"}})

\* the aggregate columns of the cursor's row for person pid
AggColumns(t, pid) ==
  [mobile_numbers |-> ContactAgg(t, pid, "mobile"),
   whatsapp_numbers |-> ContactAgg(t, pid, "whatsapp"),
   facebook_links |-> ContactAgg(t, pid, "facebook"),
   website_links |-> ContactAgg(t, pid, "website"),
   pdf_urls |-> DocAgg(t, pid)]

\* list(filter(None, column or []))
ListOrEmpty(agg) == IF agg.null THEN <<>> ELSE FilterNone(SetToSeq(agg.vals))

\* {**record, 'mobile_numbers': ..., ...}
RecordDict(row, aggs) ==
  [mobile_numbers |-> ListOrEmpty(aggs.mobile_numbers),
   whatsapp_numbers |-> ListOrEmpty(aggs.whatsapp_numbers),
   facebook_links |-> ListOrEmpty(aggs.facebook_links),
   website_links |-> ListOrEmpty(aggs.website_links),
   pdf_urls |-> ListOrEmpty(aggs.pdf_urls)] @@ row

\* _get_record applies filter(None, ...) to the four contact columns as they
\* come, and only pdf_urls has the "or []": filter(None, None) raises
GetRecordTypeError(aggs) ==
  \/ aggs.mobile_numbers.null
  \/ aggs.whatsapp_numbers.null
  \/ aggs.facebook_links.null
  \/ aggs.website_links.null

Lower(ch) == CASE ch = "A" -> "a" [] ch = "B" -> "b" [] OTHER -> ch

\* string ILIKE pattern: % matches any run of characters, _ any one
\* character, backslash takes the next pattern character literally, any
\* other character matches itself in either case
RECURSIVE ILike(_, _)
ILike(str, pat) ==
  IF pat = <<>> THEN str = <<>>
  ELSE IF Head(pat) = "%"
    THEN ILike(str, Tail(pat)) \/ (str # <<>> /\ ILike(Tail(str), pat))
  ELSE IF Head(pat) = "_"
    THEN str # <<>> /\ ILike(Tail(str), Tail(pat))
  ELSE IF Head(pat) = "\\" /\ Len(pat) >= 2
    THEN /\ str # <<>>
         /\ Lower(Head(str)) = Lower(pat[2])
         /\ ILike(Tail(str), Tail(Tail(pat)))
  ELSE /\ str # <<>>
       /\ Lower(Head(str)) = Lower(Head(pat))
       /\ ILike(Tail(str), Tail(pat))

\* the parameter search_records binds: f'%{query}%'
SearchPattern(query) == <<"%">> \o query \o <<"%">>

\* a variant of OrderedByCreatedAtDesc without the DESC: oldest first
OrderedByCreatedAtDesc_Asc(rows, ids) ==
  {s \in [1..Cardinality(ids) -> ids] :
     /\ Range(s) = ids
     /\ \A i, j \in DOMAIN s :
          i < j => rows[s[i]].created_at <= rows[s[j]].created_at}

\* the orders ORDER BY created_at DESC may return the rows ids in: rows of
\* equal created_at come in any order
OrderedByCreatedAtDesc(rows, ids) ==
  {s \in [1..Cardinality(ids) -> ids] :
     /\ Range(s) = ids
     /\ \A i, j \in DOMAIN s :
          i < j => rows[s[i]].created_at >= rows[s[j]].created_at}

\* the list comprehension over cur.fetchall()
RecordDicts(t, order) ==
  [i \in DOMAIN order |->
     RecordDict(VisPersons(t)[order[i]], AggColumns(t, order[i]))]


(***************************************************************************)
(* The operations handed to execute_with_retry, each as the sequence of    *)
(* statements it executes on the cursor.                                   *)
(***************************************************************************)
Stmt(k) == [k |-> k, type |-> "", value |-> ""]

RECURSIVE InsertsOf(_, _, _)
InsertsOf(k, type, values) ==
  IF values = <<>> THEN <<>>
  ELSE <<[k |-> k, type |-> type, value |-> Head(values)]>>
         \o InsertsOf(k, type, Tail(values))

\* the four "for ... in record.get(<key>, [])" loops, in the code's order
ContactInserts(data) ==
  InsertsOf("insert_contact", "mobile",
            DictGet(data, "mobile_numbers", <<>>))
    \o InsertsOf("insert_contact", "whatsapp",
                 DictGet(data, "whatsapp_numbers", <<>>))
    \o InsertsOf("insert_contact", "facebook",
                 DictGet(data, "facebook_links", <<>>))
    \o InsertsOf("insert_contact", "website",
                 DictGet(data, "website_links", <<>>))

_create_tables ==
  <<[k |-> "drop", type |-> "persons", value |-> ""],
    [k |-> "drop", type |-> "contact_info", value |-> ""],
    [k |-> "drop", type |-> "documents", value |-> ""],
    [k |-> "create", type |-> "persons", value |-> ""],
    [k |-> "create_if_not_exists", type |-> "contact_info", value |-> ""],
    [k |-> "create_if_not_exists", type |-> "documents", value |-> ""]>>

_add_record(record) ==
  <<Stmt("insert_person")>>
    \o ContactInserts(record)
    \o InsertsOf("insert_document", "pdf", DictGet(record, "pdf_urls", <<>>))

_update_record(updated_data) ==
  <<Stmt("update_person"), Stmt("delete_contacts")>>
    \o ContactInserts(updated_data)
    \o IF "pdf_urls" \in DOMAIN updated_data
         THEN <<Stmt("delete_documents")>>
                \o InsertsOf("insert_document", "pdf", updated_data.pdf_urls)
         ELSE <<>>

\* a variant of _delete_record that deletes the children only
_delete_record_ChildrenOnly ==
  <<Stmt("delete_contacts"), Stmt("delete_documents")>>

_delete_record ==
  <<Stmt("delete_contacts"), Stmt("delete_documents"), Stmt("delete_person")>>

_delete_all_records ==
  <<Stmt("delete_all_contacts"), Stmt("delete_all_documents"),
    Stmt("delete_all_persons")>>

\* the operation of a repository call
Operation(cl) ==
  CASE cl.op = "create_tables" -> _create_tables
    [] cl.op = "add_record" -> _add_record(cl.data)
    [] cl.op = "update_record" -> _update_record(cl.data)
    [] cl.op = "delete_record" -> _delete_record
    [] cl.op = "delete_all_records" -> _delete_all_records
    [] cl.op = "get_all_records" -> <<Stmt("select_all")>>
    [] cl.op = "get_record" -> <<Stmt("select_one")>>
    [] cl.op = "search_records" -> <<Stmt("select_search")>>

\* the persons id the statements of caller c are about
TargetId(c) ==
  IF call[c].op = "add_record" THEN person_id[c] ELSE call[c].id

TableExists(t, table) == table \notin t.dropped \/ table \in t.created


(***************************************************************************)
(* One statement of caller c's operation, executed in its transaction:     *)
(* the locks it needs, the exception it raises on this data (or ""), the   *)
(* transaction after it, and what the cursor and the Python after it       *)
(* yield.                                                                  *)
(***************************************************************************)
StmtNeeds(c, st) ==
  LET pid == TargetId(c)
      own == {pid} \cap DOMAIN persons
      cs  == BagToSet(OfPerson(contact_info, pid))
      ds  == BagToSet(OfPerson(documents, pid))
  IN  CASE st.k = "update_person" -> [NoLocks EXCEPT !.upd = own]
        [] st.k \in {"insert_contact", "insert_document"} ->
             [NoLocks EXCEPT !.ks = own]
        [] st.k = "delete_contacts" -> [NoLocks EXCEPT !.contacts = cs]
        [] st.k = "delete_documents" -> [NoLocks EXCEPT !.docs = ds]
        [] st.k = "delete_person" ->
             [NoLocks EXCEPT !.del = own, !.contacts = cs, !.docs = ds]
        [] st.k = "delete_all_contacts" ->
             [NoLocks EXCEPT !.contacts = BagToSet(contact_info)]
        [] st.k = "delete_all_documents" ->
             [NoLocks EXCEPT !.docs = BagToSet(documents)]
        [] st.k = "delete_all_persons" ->
             [NoLocks EXCEPT !.del = DOMAIN persons,
                             !.contacts = BagToSet(contact_info),
                             !.docs = BagToSet(documents)]
        [] st.k \in {"drop", "create", "create_if_not_exists"} ->
             [NoLocks EXCEPT !.ddl = TRUE]
        [] OTHER -> NoLocks

StmtError(c, st) ==
  LET t == tx[c]
      pid == TargetId(c)
      exists == pid \in DOMAIN VisPersons(t)
  IN  CASE st.k = "insert_person" -> PersonStatementError(call[c].data, TRUE)
        [] st.k = "update_person" ->
             PersonStatementError(call[c].data, exists)
        [] st.k \in {"insert_contact", "insert_document"} ->
             \* value / url is NOT NULL; person_id REFERENCES persons(id)
             IF st.value = None \/ ~exists THEN "IntegrityError" ELSE ""
        [] st.k = "create" ->
             IF TableExists(t, st.type) THEN "DuplicateTable" ELSE ""
        [] st.k = "select_one" ->
             IF exists /\ GetRecordTypeError(AggColumns(t, pid))
               THEN "TypeError" ELSE ""
        [] OTHER -> ""

\* a variant of DrawsId in which the INSERT reads the sequence without
\* advancing it (currval in place of nextval)
DrawsId_Currval(c, st) == FALSE

\* whether the persons INSERT drew its id before it failed: nextval is
\* evaluated with the row, before the NOT NULL check, and is never undone
DrawsId(c, st) ==
  st.k = "insert_person" /\ StmtError(c, st) \in {"", "IntegrityError"}

StmtTx(c, st) ==
  LET t == [tx[c] EXCEPT !.touched = TRUE]
      pid == TargetId(c)
      data == call[c].data
      own == {pid} \cap DOMAIN persons
  IN  CASE st.k = "insert_person" ->
             [t EXCEPT !.ins_persons =
                (persons_id_seq :>
                   ([id |-> persons_id_seq, created_at |-> clock]
                      @@ ScalarColumns(data))) @@ @]
        [] st.k = "update_person" ->
             IF pid \in DOMAIN t.ins_persons
               THEN [t EXCEPT !.ins_persons[pid] =
                       [id |-> @.id, created_at |-> @.created_at]
                         @@ ScalarColumns(data)]
             ELSE IF pid \in DOMAIN persons \ t.del_persons
               THEN [t EXCEPT !.upd_persons =
                       (pid :> ([id |-> pid,
                                 created_at |-> persons[pid].created_at]
                                  @@ ScalarColumns(data))) @@ @]
             ELSE t
        [] st.k = "insert_contact" ->
             [t EXCEPT
                !.ins_contacts =
                   @ (+) SetToBag({ContactRow(pid, st.type, st.value)}),
                !.ks_persons = @ \cup own]
        [] st.k = "insert_document" ->
             [t EXCEPT
                !.ins_docs = @ (+) SetToBag({DocRow(pid, st.value)}),
                !.ks_persons = @ \cup own]
        [] st.k = "delete_contacts" -> DeleteContactsOf(t, pid)
        [] st.k = "delete_documents" -> DeleteDocsOf(t, pid)
        [] st.k = "delete_person" -> DeletePerson(t, pid)
        [] st.k \in {"delete_all_contacts", "delete_all_documents",
                     "delete_all_persons"} ->
             \* DELETE FROM persons cascades to every child row
             [t EXCEPT
                !.del_contacts =
                   IF st.k = "delete_all_documents" THEN @ ELSE contact_info,
                !.ins_contacts =
                   IF st.k = "delete_all_documents" THEN @ ELSE EmptyBag,
                !.del_docs =
                   IF st.k = "delete_all_contacts" THEN @ ELSE documents,
                !.ins_docs =
                   IF st.k = "delete_all_contacts" THEN @ ELSE EmptyBag,
                !.del_persons =
                   IF st.k = "delete_all_persons" THEN DOMAIN persons ELSE @,
                !.ins_persons =
                   IF st.k = "delete_all_persons" THEN <<>> ELSE @,
                !.upd_persons =
                   IF st.k = "delete_all_persons" THEN <<>> ELSE @]
        [] st.k = "drop" ->
             \* DROP TABLE IF EXISTS ... CASCADE: the table goes with its
             \* rows; CASCADE drops the foreign keys onto it, not the rows
             \* of the referencing tables
             [t EXCEPT
                !.dropped = @ \cup {st.type},
                !.created = @ \ {st.type},
                !.del_persons =
                   IF st.type = "persons" THEN DOMAIN persons ELSE @,
                !.ins_persons = IF st.type = "persons" THEN <<>> ELSE @,
                !.upd_persons = IF st.type = "persons" THEN <<>> ELSE @,
                !.del_contacts =
                   IF st.type = "contact_info" THEN contact_info ELSE @,
                !.ins_contacts =
                   IF st.type = "contact_info" THEN EmptyBag ELSE @,
                !.del_docs = IF st.type = "documents" THEN documents ELSE @,
                !.ins_docs = IF st.type = "documents" THEN EmptyBag ELSE @]
        [] st.k \in {"create", "create_if_not_exists"} ->
             IF TableExists(t, st.type) THEN t
             ELSE [t EXCEPT !.created = @ \cup {st.type}]
        [] OTHER -> t

NoValue == [isNone |-> TRUE, v |-> None]

Value(v) == [isNone |-> FALSE, v |-> v]

StmtOuts(c, st) ==
  LET t == tx[c]
      rows == VisPersons(t)
      pid == TargetId(c)
      hits == {i \in DOMAIN rows :
                 ILike(rows[i].full_name, SearchPattern(call[c].q))}
  IN  CASE st.k = "select_one" ->
             IF pid \in DOMAIN rows
               THEN {Value(RecordDict(rows[pid], AggColumns(t, pid)))}
               ELSE {NoValue}
        [] st.k = "select_all" ->
             {Value(RecordDicts(t, o)) :
                o \in OrderedByCreatedAtDesc(rows, DOMAIN rows)}
        [] st.k = "select_search" ->
             {Value(RecordDicts(t, o)) :
                o \in OrderedByCreatedAtDesc(rows, hits)}
        [] OTHER -> {NoValue}

\* what the operation returns after its last statement
OperationResult(c, pid, out) ==
  CASE call[c].op = "add_record" -> Value(pid)
    [] call[c].op \in {"update_record", "delete_record", "delete_all_records"}
         -> Value(TRUE)
    [] OTHER -> out


(***************************************************************************)
(* execute_with_retry (src/database.py:49-79).                             *)
(***************************************************************************)
\* the exception classes the two except clauses tell apart:
\* (psycopg2.OperationalError, psycopg2.InterfaceError), and Exception
ErrorClasses == {"transient", "other"}

\* a variant of ExceptExit whose loop runs one iteration more:
\* range(max_retries + 1)
ExceptExit_OneMore(kind, att) ==
  IF kind = "transient"
    THEN IF att = max_retries THEN "raise" ELSE "retry"
    ELSE "raise"

\* a variant of ExceptExit whose first except clause catches every
\* Exception
ExceptExit_RetryAny(kind, att) ==
  IF att = max_retries - 1 THEN "raise" ELSE "retry"

\* how the except clause that catches an error of class kind on loop
\* iteration att leaves the try statement
ExceptExit(kind, att) ==
  IF kind = "transient"
    THEN IF att = max_retries - 1 THEN "raise" ELSE "retry"
    ELSE "raise"

\* a variant of Rollback on an autocommit connection: the statements
\* executed before the failure stay
Rollback_Autocommit(t) == Committed(t)

\* conn.rollback(): the committed tables after the transaction t is undone
Rollback(t) == <<persons, contact_info, documents>>

\* the three committed tables become s
SetStore(s) ==
  /\ persons' = s[1]
  /\ contact_info' = s[2]
  /\ documents' = s[3]

NoCall == [op |-> "none", id |-> 0, data |-> <<>>, q |-> <<>>]

NoRet == [st |-> "none", isNone |-> TRUE, v |-> None]

\* what the model remembers of a call for the properties below: the
\* commits the server applied, whether a commit raised, whether a failure
\* outside the data was met, and (one caller at a time) the tables when the
\* call began
NoHist ==
  [commits |-> 0, commit_raised |-> FALSE, injected |-> FALSE,
   pre |-> <<<<>>, EmptyBag, EmptyBag>>]

\* the state once "db = Database()" has run: the pool, and empty tables
Init0 ==
  /\ persons = <<>>
  /\ contact_info = EmptyBag
  /\ documents = EmptyBag
  /\ persons_id_seq = 1

\* the widgets of a run nobody touched
NoInput == [login |-> FALSE, password |-> "", logout |-> FALSE]

\* no caller is in a call, the pool has every connection, and the browser
\* session has not run the script yet
InitCallers ==
  /\ clock = 0
  /\ pool_used = 0
  /\ pc = [c \in Callers |-> "idle"]
  /\ call = [c \in Callers |-> NoCall]
  /\ attempt = [c \in Callers |-> 0]
  /\ conn = [c \in Callers |-> FALSE]
  /\ tx = [c \in Callers |-> EmptyTx]
  /\ ip = [c \in Callers |-> 1]
  /\ person_id = [c \in Callers |-> 0]
  /\ result = [c \in Callers |-> NoValue]
  /\ exit = [c \in Callers |-> "none"]
  /\ error = [c \in Callers |-> ""]
  /\ ret = [c \in Callers |-> NoRet]
  /\ hist = [c \in Callers |-> NoHist]
  /\ session_state = <<>>
  /\ script = "waiting"
  /\ input = NoInput
  /\ records = <<>>

Concurrent == Cardinality(active) > 1

\* where the model cuts the SERIAL sequence off
IdLimit == IF Concurrent THEN MaxConcId ELSE MaxId

\* a failure outside the data may be injected
MayFail == Concurrent => faults_left > 0

Failed == faults_left' = IF Concurrent THEN faults_left - 1 ELSE faults_left

\* a public method calls self.execute_with_retry(operation, ...)
Enter(c, cl) ==
  /\ pc[c] = "idle"
  /\ Concurrent => calls_left > 0
  /\ calls_left' = IF Concurrent THEN calls_left - 1 ELSE calls_left
  /\ call' = [call EXCEPT ![c] = cl]
  /\ pc' = [pc EXCEPT ![c] = "acquire"]
  /\ hist' = [hist EXCEPT ![c] =
                IF Concurrent THEN NoHist ELSE [NoHist EXCEPT !.pre = store]]
  /\ UNCHANGED <<persons, contact_info, documents, persons_id_seq, clock,
                 pool_used, active, faults_left, attempt, conn, tx, ip,
                 person_id, result, exit, error, ret>>

\* an except clause: remember the error, roll back if there is a
\* connection, and leave by retry or raise
Except(c, kind) ==
  /\ error' = [error EXCEPT ![c] = kind]
  /\ exit' = [exit EXCEPT ![c] = ExceptExit(kind, attempt[c])]
  /\ pc' = [pc EXCEPT ![c] = "finally"]
  /\ tx' = [tx EXCEPT ![c] = EmptyTx]

\* conn = self.get_connection(): the pool hands a connection out
get_connection(c) ==
  /\ c \in active
  /\ pc[c] = "acquire"
  /\ conn' = [conn EXCEPT ![c] = TRUE]
  /\ pool_used' = pool_used + 1
  /\ pc' = [pc EXCEPT ![c] = "exec"]
  /\ UNCHANGED <<persons, contact_info, documents, persons_id_seq, clock,
                 active, calls_left, faults_left, call, attempt, tx, ip,
                 person_id, result, exit, error, ret, hist>>
  /\ UNCHANGED appvars

\* self.get_connection() raises: conn stays None
get_connection_fails(c) ==
  /\ c \in active
  /\ pc[c] = "acquire"
  /\ MayFail
  /\ Failed
  /\ \E kind \in ErrorClasses : Except(c, kind)
  /\ hist' = [hist EXCEPT ![c].injected = TRUE]
  /\ UNCHANGED <<persons, contact_info, documents, persons_id_seq, clock,
                 pool_used, active, calls_left, call, attempt, conn, ip,
                 person_id, result, ret>>
  /\ UNCHANGED appvars

\* result = operation(cur, *args), one cur.execute (and the Python around
\* it) at a time
execute(c) ==
  /\ c \in active
  /\ pc[c] = "exec"
  /\ LET st == Operation(call[c])[ip[c]]
         pid == IF st.k = "insert_person" THEN persons_id_seq
                ELSE person_id[c]
     IN  /\ ~Blocked(c, StmtNeeds(c, st))
         /\ st.k = "insert_person" => persons_id_seq <= IdLimit
         /\ persons_id_seq' =
              IF DrawsId(c, st) THEN persons_id_seq + 1 ELSE persons_id_seq
         /\ IF StmtError(c, st) # ""
              THEN /\ Except(c, "other")
                   /\ SetStore(Rollback(tx[c]))
                   /\ UNCHANGED <<ip, person_id, result>>
              ELSE /\ tx' = [tx EXCEPT ![c] = StmtTx(c, st)]
                   /\ person_id' = [person_id EXCEPT ![c] = pid]
                   /\ \E out \in StmtOuts(c, st) :
                        IF ip[c] = Len(Operation(call[c]))
                          THEN /\ pc' = [pc EXCEPT ![c] = "commit"]
                               /\ result' = [result EXCEPT ![c] =
                                               OperationResult(c, pid, out)]
                               /\ ip' = ip
                          ELSE /\ ip' = [ip EXCEPT ![c] = @ + 1]
                               /\ UNCHANGED <<pc, result>>
                   /\ UNCHANGED <<persons, contact_info, documents, exit,
                                  error>>
  /\ UNCHANGED <<clock, pool_used, active, calls_left, faults_left, call,
                 attempt, conn, ret, hist>>
  /\ UNCHANGED appvars

\* the cursor or a statement fails for a cause outside the data: the
\* connection is lost (transient), or the server reports another error
execute_fails(c) ==
  /\ c \in active
  /\ pc[c] = "exec"
  /\ MayFail
  /\ Failed
  /\ \E kind \in ErrorClasses : Except(c, kind)
  /\ SetStore(Rollback(tx[c]))
  /\ hist' = [hist EXCEPT ![c].injected = TRUE]
  /\ UNCHANGED <<persons_id_seq, clock, pool_used, active, calls_left, call,
                 attempt, conn, ip, person_id, result, ret>>
  /\ UNCHANGED appvars

\* conn.commit() succeeds, and "return result" leaves the try statement
commit(c) ==
  /\ c \in active
  /\ pc[c] = "commit"
  /\ SetStore(Committed(tx[c]))
  /\ persons_id_seq' =
       IF "persons" \in tx[c].created THEN 1 ELSE persons_id_seq
  /\ tx' = [tx EXCEPT ![c] = EmptyTx]
  /\ exit' = [exit EXCEPT ![c] = "return"]
  /\ pc' = [pc EXCEPT ![c] = "finally"]
  /\ hist' = [hist EXCEPT ![c].commits = @ + 1]
  /\ UNCHANGED <<clock, pool_used, active, calls_left, faults_left, call,
                 attempt, conn, ip, person_id, result, error, ret>>
  /\ UNCHANGED appvars

\* conn.commit() raises.  When the connection is lost while COMMIT is in
\* flight the client cannot tell whether the server had committed: both
\* outcomes are possible, and conn.rollback() undoes neither.
commit_fails(c) ==
  /\ c \in active
  /\ pc[c] = "commit"
  /\ MayFail
  /\ Failed
  /\ \E kind \in ErrorClasses, applied \in BOOLEAN :
       /\ applied => kind = "transient"
       /\ Except(c, kind)
       /\ SetStore(IF applied THEN Committed(tx[c]) ELSE Rollback(tx[c]))
       /\ persons_id_seq' =
            IF applied /\ "persons" \in tx[c].created
              THEN 1 ELSE persons_id_seq
       /\ hist' = [hist EXCEPT
                     ![c].commits = IF applied THEN @ + 1 ELSE @,
                     ![c].commit_raised = TRUE,
                     ![c].injected = TRUE]
  /\ UNCHANGED <<clock, pool_used, active, calls_left, call, attempt, conn,
                 ip, person_id, result, ret>>
  /\ UNCHANGED appvars

(***************************************************************************)
(* The public methods: what each hands its caller when execute_with_retry  *)
(* returns a result, and when it raises.                                   *)
(***************************************************************************)
Returned(v) == [st |-> "returned", isNone |-> v.isNone, v |-> v.v]

Raised == [st |-> "raised", isNone |-> TRUE, v |-> None]

\* "return self.execute_with_retry(...)", with "or []" in get_all_records
\* and search_records
OnReturn(op, res) ==
  IF op \in {"get_all_records", "search_records"} /\ res.isNone
    THEN Returned(Value(<<>>))
    ELSE Returned(res)

\* the "except Exception" of the method, where it has one: get_record has
\* none, create_tables re-raises
OnRaise(op) ==
  CASE op = "add_record" -> Returned(NoValue)
    [] op \in {"get_all_records", "search_records"} -> Returned(Value(<<>>))
    [] op \in {"update_record", "delete_record", "delete_all_records"} ->
         Returned(Value(FALSE))
    [] op \in {"get_record", "create_tables"} -> Raised

\* a variant of return_connection that never calls putconn
return_connection_Leak(used, held) == used

\* self.return_connection(conn): the pool takes the connection back
return_connection(used, held) == IF held THEN used - 1 ELSE used

\* the finally clause, and then what the exit of the try statement does:
\* the next loop iteration (after time.sleep(1)), or the return / raise
\* through the public method to its caller
finally(c) ==
  /\ c \in active
  /\ pc[c] = "finally"
  /\ pool_used' = return_connection(pool_used, conn[c])
  /\ conn' = [conn EXCEPT ![c] = FALSE]
  /\ CASE exit[c] = "retry" ->
            /\ attempt' = [attempt EXCEPT ![c] = @ + 1]
            /\ pc' = [pc EXCEPT ![c] = "acquire"]
            /\ ret' = ret
       [] exit[c] = "return" ->
            /\ pc' = [pc EXCEPT ![c] = "done"]
            /\ ret' = [ret EXCEPT ![c] = OnReturn(call[c].op, result[c])]
            /\ attempt' = attempt
       [] exit[c] = "raise" ->
            /\ pc' = [pc EXCEPT ![c] = "done"]
            /\ ret' = [ret EXCEPT ![c] = OnRaise(call[c].op)]
            /\ attempt' = attempt
  \* the locals of the attempt end with it
  /\ ip' = [ip EXCEPT ![c] = 1]
  /\ person_id' = [person_id EXCEPT ![c] = 0]
  /\ result' = [result EXCEPT ![c] = NoValue]
  /\ exit' = [exit EXCEPT ![c] = IF @ = "retry" THEN "none" ELSE @]
  /\ UNCHANGED <<persons, contact_info, documents, persons_id_seq, clock,
                 active, calls_left, faults_left, call, tx, error, hist>>
  /\ UNCHANGED appvars

\* the caller takes what the method handed it and goes on
CallEnds(c) ==
  /\ c \in active
  /\ pc[c] = "done"
  /\ pc' = [pc EXCEPT ![c] = "idle"]
  /\ call' = [call EXCEPT ![c] = NoCall]
  /\ ret' = [ret EXCEPT ![c] = NoRet]
  /\ hist' = [hist EXCEPT ![c] = NoHist]
  /\ attempt' = [attempt EXCEPT ![c] = 0]
  /\ error' = [error EXCEPT ![c] = ""]
  /\ exit' = [exit EXCEPT ![c] = "none"]
  /\ UNCHANGED <<persons, contact_info, documents, persons_id_seq, clock,
                 pool_used, active, calls_left, faults_left, conn, tx, ip,
                 person_id, result>>

resume(c) ==
  /\ CallEnds(c)
  /\ UNCHANGED appvars

\* the payloads of a run: two concurrent callers use fewer
RunPayloads == IF Concurrent THEN {PBare, PDup} ELSE Payloads

\* the payloads of update_record: concurrent updates also write a document
UpdatePayloads == IF Concurrent THEN {PDup, PDoc} ELSE Payloads

create_tables(c) ==
  /\ c \in active
  /\ Enter(c, [NoCall EXCEPT !.op = "create_tables"])
  /\ UNCHANGED appvars

add_record(c) ==
  /\ c \in active
  /\ persons_id_seq <= IdLimit
  /\ \E record \in RunPayloads :
       Enter(c, [NoCall EXCEPT !.op = "add_record", !.data = record])
  /\ UNCHANGED appvars

get_all_records(c) ==
  /\ c \in active
  /\ Enter(c, [NoCall EXCEPT !.op = "get_all_records"])
  /\ UNCHANGED appvars

get_record(c) ==
  /\ c \in active
  /\ \E record_id \in Ids :
       Enter(c, [NoCall EXCEPT !.op = "get_record", !.id = record_id])
  /\ UNCHANGED appvars

update_record(c) ==
  /\ c \in active
  /\ \E record_id \in Ids, updated_data \in UpdatePayloads :
       Enter(c, [NoCall EXCEPT !.op = "update_record", !.id = record_id,
                               !.data = updated_data])
  /\ UNCHANGED appvars

search_records(c) ==
  /\ c \in active
  /\ \E query \in Queries :
       Enter(c, [NoCall EXCEPT !.op = "search_records", !.q = query])
  /\ UNCHANGED appvars

delete_record(c) ==
  /\ c \in active
  /\ \E record_id \in Ids :
       Enter(c, [NoCall EXCEPT !.op = "delete_record", !.id = record_id])
  /\ UNCHANGED appvars

delete_all_records(c) ==
  /\ c \in active
  /\ Enter(c, [NoCall EXCEPT !.op = "delete_all_records"])
  /\ UNCHANGED appvars

\* between two readings of datetime.now() the local wall clock moves on,
\* is set back, or (no step) stands still
Tick ==
  /\ clock' \in (0..MaxClock) \ {clock}
  /\ UNCHANGED <<persons, contact_info, documents, persons_id_seq, pool_used,
                 active, calls_left, faults_left, pc, call, attempt, conn, tx,
                 ip, person_id, result, exit, error, ret, hist>>
  /\ UNCHANGED appvars

Next ==
  \/ Tick
  \/ \E c \in Callers :
       \/ create_tables(c)
       \/ add_record(c)
       \/ get_all_records(c)
       \/ get_record(c)
       \/ update_record(c)
       \/ search_records(c)
       \/ delete_record(c)
       \/ delete_all_records(c)
       \/ get_connection(c)
       \/ get_connection_fails(c)
       \/ execute(c)
       \/ execute_fails(c)
       \/ commit(c)
       \/ commit_fails(c)
       \/ finally(c)
       \/ resume(c)

\* one caller at a time, any number of calls
Init ==
  /\ Init0
  /\ InitCallers
  /\ active = {1}
  /\ calls_left = 0
  /\ faults_left = 0

Spec == Init /\ [][Next]_vars

\* the tables once add_record(PFull) has returned 1 at time 0
OnePerson ==
  <<1 :> ([id |-> 1, created_at |-> 0] @@ ScalarColumns(PFull)),
    SetToBag({ContactRow(1, "mobile", "m1"), ContactRow(1, "whatsapp", "w1"),
              ContactRow(1, "facebook", "f1"), ContactRow(1, "website", "s1")}),
    SetToBag({DocRow(1, "u1")})>>

\* two concurrent callers, on tables that hold one person
InitConc ==
  /\ persons = OnePerson[1]
  /\ contact_info = OnePerson[2]
  /\ documents = OnePerson[3]
  /\ persons_id_seq = 2
  /\ InitCallers
  /\ active = Callers
  /\ calls_left = MaxConcCalls
  /\ faults_left = MaxConcFaults

\* the calls that write, and the steps of execute_with_retry
NextConc ==
  \E c \in Callers :
    \/ create_tables(c)
    \/ add_record(c)
    \/ update_record(c)
    \/ delete_record(c)
    \/ delete_all_records(c)
    \/ get_connection(c)
    \/ get_connection_fails(c)
    \/ execute(c)
    \/ execute_fails(c)
    \/ commit(c)
    \/ commit_fails(c)
    \/ finally(c)
    \/ resume(c)

SpecConc == InitConc /\ [][NextConc]_vars


(***************************************************************************)
(* The Streamlit app (src/app.py, src/auth.py): one browser session.       *)
(* Every interaction with a widget runs the script from its first line,    *)
(* with st.session_state kept from run to run.                             *)
(***************************************************************************)
\* st.secrets["WEB_PASS"]
WEB_PASS == "secret"

Passwords == {"", "secret", "wrong"}

\* what the widgets hold in a run: whether the Login button was clicked,
\* the text of the password field, whether the Logout button was clicked
Inputs == [login : BOOLEAN, password : Passwords, logout : BOOLEAN]

\* st.session_state.authenticated, once init_auth has run
Authenticated(ss) == "authenticated" \in DOMAIN ss /\ ss["authenticated"]

\* init_auth(): the flag is set to False if the session has none yet
init_auth(ss) ==
  IF "authenticated" \in DOMAIN ss THEN ss
  ELSE ("authenticated" :> FALSE) @@ ss

\* a variant of PasswordAccepted that lets every clicked Login in
PasswordAccepted_Any(in) == in.login

\* the two conditions under which login_form sets the flag
PasswordAccepted(in) == in.login /\ in.password = WEB_PASS

\* the session of the app is caller 1 of the repository
Session == 1

\* the calls the pages make
PageCalls ==
  {[NoCall EXCEPT !.op = "add_record", !.data = record] :
     record \in {PFull, PBare}}
    \cup {[NoCall EXCEPT !.op = "get_all_records"]}
    \cup {[NoCall EXCEPT !.op = "search_records", !.q = <<"a">>]}
    \cup {[NoCall EXCEPT !.op = "update_record", !.id = 1, !.data = PBare]}
    \cup {[NoCall EXCEPT !.op = "delete_record", !.id = 1]}
    \cup {[NoCall EXCEPT !.op = "delete_all_records"]}

AppDbUnchanged ==
  UNCHANGED <<persons, contact_info, documents, persons_id_seq, clock,
              pool_used, active, calls_left, faults_left, pc, call, attempt,
              conn, tx, ip, person_id, result, exit, error, ret, hist>>

\* the user touches a widget: the script runs, and its first statement is
\* init_auth()
interact ==
  /\ script = "waiting"
  /\ input' \in Inputs
  /\ session_state' = init_auth(session_state)
  /\ script' = "login_form"
  /\ UNCHANGED records
  /\ AppDbUnchanged

\* if not login_form(): st.stop()
login_form ==
  /\ script = "login_form"
  /\ IF Authenticated(session_state)
       THEN /\ script' = "create_tables"
            /\ UNCHANGED <<session_state, input>>
     ELSE IF PasswordAccepted(input)
       \* the flag is set and st.rerun() starts the script again
       THEN /\ session_state' = [session_state EXCEPT !["authenticated"] = TRUE]
            /\ input' = NoInput
            /\ script' = "login_form"
     ELSE /\ script' = "waiting"
          /\ UNCHANGED <<session_state, input>>
  /\ UNCHANGED records
  /\ AppDbUnchanged

\* db.create_tables() of the script
script_create_tables ==
  /\ script = "create_tables"
  /\ Enter(Session, [NoCall EXCEPT !.op = "create_tables"])
  /\ UNCHANGED appvars

\* create_tables has returned, or has raised and ended the run
create_tables_ends ==
  /\ script = "create_tables"
  /\ CallEnds(Session)
  /\ script' = IF ret[Session].st = "raised" THEN "waiting" ELSE "sidebar"
  /\ UNCHANGED <<session_state, input, records>>

\* if st.sidebar.button("Logout"): logout(); st.rerun()
sidebar ==
  /\ script = "sidebar"
  /\ IF input.logout
       THEN /\ session_state' =
                 [session_state EXCEPT !["authenticated"] = FALSE]
            /\ input' = NoInput
            /\ script' = "login_form"
       ELSE /\ script' = "page"
            /\ UNCHANGED <<session_state, input>>
  /\ UNCHANGED records
  /\ AppDbUnchanged

\* the page of the run calls the repository
page_calls ==
  /\ script = "page"
  /\ \E cl \in PageCalls :
       /\ cl.op = "add_record" => persons_id_seq <= IdLimit
       /\ Enter(Session, cl)
  /\ UNCHANGED appvars

page_call_ends ==
  /\ script = "page"
  /\ CallEnds(Session)
  /\ UNCHANGED appvars

\* the script reaches its end (or st.rerun()), and the app waits
run_ends ==
  /\ script = "page"
  /\ pc[Session] = "idle"
  /\ script' = "waiting"
  /\ UNCHANGED <<session_state, input, records>>
  /\ AppDbUnchanged

NextApp ==
  \/ interact
  \/ login_form
  \/ script_create_tables
  \/ create_tables_ends
  \/ sidebar
  \/ page_calls
  \/ page_call_ends
  \/ run_ends
  \/ Tick
  \/ get_connection(Session)
  \/ get_connection_fails(Session)
  \/ execute(Session)
  \/ execute_fails(Session)
  \/ commit(Session)
  \/ commit_fails(Session)
  \/ finally(Session)

SpecApp == Init /\ [][NextApp]_vars


(***************************************************************************)
(* The View Records page (src/app.py:57-67) with the record cards and the  *)
(* edit form (src/components.py).  The records it shows are added by       *)
(* another session of the app, which keeps at most one Person stored.      *)
(***************************************************************************)
\* the values another session stores for one contact type, at most
MaxValues == 2

\* the inputs the "+ Add" buttons grow a contact type to, at most
MaxInputs == 2

\* the first n of the values vs
FirstValues(vs, n) == SubSeq(vs, 1, n)

\* how many mobile, whatsapp, facebook and website values the other
\* session's records carry
OtherCounts ==
  {<<n, n, n, n>> : n \in 0..MaxValues}
    \cup {<<MaxValues, 0, 1, 0>>, <<1, MaxValues, 0, MaxValues>>,
          <<0, 1, MaxValues, 1>>}

\* what the other session's entry form hands add_record
OtherPayloads ==
  {[FormPayload(<<"a">>, FirstValues(<<"m1", "m2">>, n[1]), <<>>) EXCEPT
      !.whatsapp_numbers = FirstValues(<<"w1", "w2">>, n[2]),
      !.facebook_links = FirstValues(<<"f1", "f2">>, n[3]),
      !.website_links = FirstValues(<<"s1", "s2">>, n[4])] :
     n \in OtherCounts}

\* f"{key_prefix}_count"
CountKey(t) ==
  CASE t = "mobile" -> "mobile_count"
    [] t = "whatsapp" -> "whatsapp_count"
    [] t = "facebook" -> "facebook_count"
    [] t = "website" -> "website_count"

\* 'add_' + key_prefix
AddKey(t) ==
  CASE t = "mobile" -> "add_mobile"
    [] t = "whatsapp" -> "add_whatsapp"
    [] t = "facebook" -> "add_facebook"
    [] t = "website" -> "add_website"

\* the order in which render_entry_form renders the contact types
FormOrder(t) ==
  CASE t = "mobile" -> 1
    [] t = "whatsapp" -> 2
    [] t = "facebook" -> 3
    [] t = "website" -> 4

Max(a, b) == IF a >= b THEN a ELSE b

\* render_entry_form's first loop: a count the session lacks is set to 1
InitCounts(ss) ==
  [k \in DOMAIN ss \cup {CountKey(t) : t \in ContactTypes} |->
     IF k \in DOMAIN ss THEN ss[k] ELSE 1]

\* render_multiple_inputs, with every input left as it is rendered: the
\* number of inputs, the initial value shown in each, and the values
\* returned
render_multiple_inputs(ss, t, initial_values) ==
  LET inputs == DictGet(ss, CountKey(t), Max(1, Len(initial_values)))
      shown == [i \in 1..inputs |->
                  IF i <= Len(initial_values) THEN initial_values[i] ELSE ""]
  IN  FilterNone(shown)

\* the dict render_entry_form(record) returns when "Save Changes" is
\* clicked with every widget left as it is rendered and no file uploaded
EntryFormPayload(ss, record) ==
  [full_name |-> record.full_name,
   father_name |-> record.father_name,
   mother_name |-> record.mother_name,
   \* strptime of a date object raises TypeError: today's date is shown
   dob |-> IF record.dob.kind = "str"
             THEN StrDob(record.dob.v) ELSE StrDob(Today),
   gender |-> record.gender,
   nid |-> record.nid,
   voter_no |-> record.voter_no,
   permanent_address |-> record.permanent_address,
   present_address |-> record.present_address,
   image_data |-> IF record.image_data \in {None, ""}
                    THEN None ELSE record.image_data,
   pdf_urls |-> record.pdf_urls,
   mobile_numbers |->
     render_multiple_inputs(ss, "mobile", record.mobile_numbers),
   whatsapp_numbers |->
     render_multiple_inputs(ss, "whatsapp", record.whatsapp_numbers),
   facebook_links |->
     render_multiple_inputs(ss, "facebook", record.facebook_links),
   website_links |->
     render_multiple_inputs(ss, "website", record.website_links),
   description |-> record.description]

\* all([full_name, father_name, mother_name, nid, permanent_address,
\* present_address])
AllRequired(P) ==
  /\ P.full_name # <<>>
  /\ \A k \in {"father_name", "mother_name", "nid", "permanent_address",
               "present_address"} : P[k] \notin {"", None}

\* st.rerun(): the script starts again from its first line
Rerun ==
  /\ script' = "login_form"
  /\ input' = NoInput
  /\ records' = <<>>

\* the run ends and the app waits for the user
Waits ==
  /\ script' = "waiting"
  /\ records' = <<>>
  /\ UNCHANGED input

\* records = db.get_all_records()
view_records ==
  /\ script = "page"
  /\ Enter(Session, [NoCall EXCEPT !.op = "get_all_records"])
  /\ script' = "view_records"
  /\ UNCHANGED <<session_state, input, records>>

\* get_all_records has returned: "No records found", or the cards
records_loaded ==
  /\ script = "view_records"
  /\ CallEnds(Session)
  /\ records' = ret[Session].v
  /\ script' = IF ret[Session].v = <<>> THEN "waiting" ELSE "cards"
  /\ UNCHANGED <<session_state, input>>

\* render_record_card(record) for the stored record, by what the user
\* clicked to start this run
render_record_card ==
  /\ script = "cards"
  /\ LET record == records[1]
         editing == DictGet(session_state, "editing_record", 0) = record.id
         ss == InitCounts(session_state)
         adding == {t \in ContactTypes : DictGet(ss, AddKey(t), FALSE)}
         first == CHOOSE t \in adding :
                    \A u \in adding : FormOrder(t) <= FormOrder(u)
     IN  \/ \* "Edit Record": the id is remembered, st.rerun()
            /\ session_state' = ("editing_record" :> record.id) @@ session_state
            /\ Rerun
            /\ AppDbUnchanged
         \/ \* the card without the form
            /\ ~editing
            /\ UNCHANGED session_state
            /\ Waits
            /\ AppDbUnchanged
         \/ \* render_multiple_inputs finds an 'add_' flag: one more input,
            \* st.rerun()
            /\ editing
            /\ adding # {}
            /\ session_state' = [ss EXCEPT ![CountKey(first)] = @ + 1,
                                           ![AddKey(first)] = FALSE]
            /\ Rerun
            /\ AppDbUnchanged
         \/ \* "Save Changes" of the form the last run showed
            /\ editing
            /\ adding = {}
            /\ \A t \in ContactTypes : CountKey(t) \in DOMAIN session_state
            /\ AllRequired(EntryFormPayload(ss, record))
            /\ Enter(Session, [NoCall EXCEPT !.op = "update_record",
                                 !.id = record.id,
                                 !.data = EntryFormPayload(ss, record)])
            /\ session_state' = ss
            /\ script' = "update"
            /\ UNCHANGED <<input, records>>
         \/ \* a "+ Add" button below the form
            /\ editing
            /\ adding = {}
            /\ \E t \in ContactTypes :
                 /\ ss[CountKey(t)] < MaxInputs
                 /\ session_state' = (AddKey(t) :> TRUE) @@ ss
            /\ Waits
            /\ AppDbUnchanged
         \/ \* the form is shown and nothing was clicked
            /\ editing
            /\ adding = {}
            /\ session_state' = ss
            /\ Waits
            /\ AppDbUnchanged

\* update_record has returned: on True the form is closed and the script
\* runs again, on False an error is shown
update_ends ==
  /\ script = "update"
  /\ CallEnds(Session)
  /\ IF ret[Session].v
       THEN /\ session_state' = [session_state EXCEPT !["editing_record"] = 0]
            /\ Rerun
       ELSE /\ UNCHANGED session_state
            /\ Waits

\* another session's add_record commits a Person while this session is
\* between two calls
other_session_adds ==
  /\ pc[Session] = "idle"
  /\ persons = <<>>
  /\ persons_id_seq = 1
  /\ \E record \in OtherPayloads :
       /\ persons' =
            (1 :> ([id |-> 1, created_at |-> clock] @@ ScalarColumns(record)))
       /\ contact_info' = contact_info (+) ContactRowsOf(record, 1)
       /\ documents' = documents (+) DocRowsOf(record, 1)
  /\ persons_id_seq' = 2
  /\ UNCHANGED <<clock, pool_used, active, calls_left, faults_left, pc, call,
                 attempt, conn, tx, ip, person_id, result, exit, error, ret,
                 hist>>
  /\ UNCHANGED appvars

NextForm ==
  \/ interact
  \/ login_form
  \/ script_create_tables
  \/ create_tables_ends
  \/ sidebar
  \/ view_records
  \/ records_loaded
  \/ render_record_card
  \/ update_ends
  \/ other_session_adds
  \/ get_connection(Session)
  \/ get_connection_fails(Session)
  \/ execute(Session)
  \/ execute_fails(Session)
  \/ commit(Session)
  \/ commit_fails(Session)
  \/ finally(Session)

SpecForm == Init /\ [][NextForm]_vars


(***************************************************************************)
(* Properties.                                                             *)
(***************************************************************************)
\* what get_record(record_id) hands its caller when it runs now, on the
\* committed tables, and meets no failure outside the data
get_record_now(record_id) ==
  IF record_id \notin DOMAIN VisPersons(EmptyTx) THEN Returned(NoValue)
  ELSE IF GetRecordTypeError(AggColumns(EmptyTx, record_id)) THEN Raised
  ELSE Returned(Value(RecordDict(VisPersons(EmptyTx)[record_id],
                                 AggColumns(EmptyTx, record_id))))

\* the dict rec carries payload P's scalar fields (dob up to the str / date
\* conversion, an absent optional key as None)
SameScalars(rec, P) ==
  /\ RequiredKeys \subseteq DOMAIN P
  /\ rec.full_name = P.full_name
  /\ rec.father_name = P.father_name
  /\ rec.mother_name = P.mother_name
  /\ rec.dob.v = P.dob.v
  /\ rec.gender = P.gender
  /\ rec.nid = P.nid
  /\ rec.voter_no = DictGet(P, "voter_no", None)
  /\ rec.permanent_address = P.permanent_address
  /\ rec.present_address = P.present_address
  /\ rec.image_data = DictGet(P, "image_data", None)
  /\ rec.description = DictGet(P, "description", None)

\* the dict rec carries exactly payload P's children, up to order
SameChildren(rec, P) ==
  /\ SeqToBag(rec.mobile_numbers)
       = SeqToBag(DictGet(P, "mobile_numbers", <<>>))
  /\ SeqToBag(rec.whatsapp_numbers)
       = SeqToBag(DictGet(P, "whatsapp_numbers", <<>>))
  /\ SeqToBag(rec.facebook_links)
       = SeqToBag(DictGet(P, "facebook_links", <<>>))
  /\ SeqToBag(rec.website_links)
       = SeqToBag(DictGet(P, "website_links", <<>>))
  /\ SeqToBag(rec.pdf_urls) = SeqToBag(DictGet(P, "pdf_urls", <<>>))

\* caller c's call of method op has ended
Done(c, op) == pc[c] = "done" /\ call[c].op = op

ReturnedValue(c) == ret[c].st = "returned" /\ ~ret[c].isNone

RepositoryMethods ==
  {"add_record", "get_all_records", "get_record", "search_records",
   "update_record", "delete_record", "delete_all_records"}

\* C1: every public repository method always returns to its caller and
\* never raises, whatever the input, the tables and the failures met.
C1_NeverRaises ==
  \A c \in Callers :
    pc[c] = "done" /\ call[c].op \in RepositoryMethods
      => ret[c].st = "returned"

\* C2: once update_record(id, P2) has returned True for an existing id,
\* get_record(id) returns exactly P2's scalar fields and exactly P2's
\* children, whatever keys P2 carries.
C2_UpdateThenGet ==
  \A c \in Callers :
    (/\ Done(c, "update_record")
     /\ ReturnedValue(c)
     /\ ret[c].v = TRUE
     /\ call[c].id \in DOMAIN hist[c].pre[1])
      => LET got == get_record_now(call[c].id)
         IN  /\ got.st = "returned"
             /\ ~got.isNone
             /\ SameScalars(got.v, call[c].data)
             /\ SameChildren(got.v, call[c].data)

\* C3: get_record(add_record(P)) returns a record equal to P on every
\* field, with id and created_at populated and every child list equal to
\* the submitted one up to order, also for empty and duplicate-holding
\* child lists.
C3_AddThenGet ==
  \A c \in Callers :
    Done(c, "add_record") /\ ReturnedValue(c)
      => LET got == get_record_now(ret[c].v)
         IN  /\ got.st = "returned"
             /\ ~got.isNone
             /\ got.v.id = ret[c].v
             /\ got.v.created_at \in 0..MaxClock
             /\ SameScalars(got.v, call[c].data)
             /\ SameChildren(got.v, call[c].data)

\* C4: execute_with_retry runs at most max_retries = 3 attempts; an attempt
\* that fails with a transient error is rolled back and, while it is not
\* the third, followed by a whole new attempt (acquire, execute, commit);
\* the transient failure of the third attempt is raised.
C4_AtMostThreeAttempts ==
  \A c \in Callers :
    /\ attempt[c] <= max_retries - 1
    /\ pc[c] = "acquire" => ~conn[c] /\ tx[c] = EmptyTx /\ ip[c] = 1
    /\ (pc[c] = "finally" /\ exit[c] # "return" /\ error[c] = "transient")
         => /\ tx[c] = EmptyTx
            /\ exit[c] = IF attempt[c] = max_retries - 1
                           THEN "raise" ELSE "retry"
    /\ (pc[c] = "done" /\ exit[c] = "raise" /\ error[c] = "transient")
         => attempt[c] = max_retries - 1

\* a call whose three attempts all failed with a transient error has ended
\* with the executor raising
C4_Witness ==
  \E c \in Callers :
    /\ pc[c] = "done"
    /\ exit[c] = "raise"
    /\ error[c] = "transient"
    /\ attempt[c] = max_retries - 1

\* caller c's attempt fails in this step with an error that is not
\* transient
FailsOther(c) ==
  /\ pc[c] \in {"acquire", "exec", "commit"}
  /\ pc'[c] = "finally"
  /\ exit'[c] # "return"
  /\ error'[c] = "other"

\* C5: an attempt that fails with an error that is not transient, on
\* whichever attempt, is rolled back and raised at once: the step commits
\* nothing, and the operation is not executed again.
C5_OtherErrorNoRetry ==
  [][\A c \in Callers :
       /\ FailsOther(c)
            => /\ exit'[c] = "raise"
               /\ tx'[c] = EmptyTx
               /\ <<persons, contact_info, documents>>'
                    = <<persons, contact_info, documents>>
       /\ (pc[c] = "finally" /\ exit[c] = "raise")
            => /\ pc'[c] \in {"finally", "done"}
               /\ attempt'[c] = attempt[c]]_vars

\* a call has ended with the executor raising an error that is not
\* transient on its third attempt, after statements had been executed
C5_Witness ==
  \E c \in Callers :
    /\ pc[c] = "finally"
    /\ exit[c] = "raise"
    /\ error[c] = "other"
    /\ attempt[c] = max_retries - 1
    /\ ip[c] > 1

\* C6: every connection an attempt acquired is given back exactly once on
\* every exit path of that attempt (success, retry, raise), so with N
\* concurrent callers at most N connections are out of the pool and none
\* is out once every caller has ended.
C6_ConnectionsReturned ==
  /\ pool_used = Cardinality({c \in Callers : conn[c]})
  /\ pool_used <= Cardinality(active)
  /\ \A c \in Callers :
       /\ conn[c] => pc[c] \in {"exec", "commit", "finally"}
       /\ pc[c] \in {"exec", "commit"} => conn[c]

\* one caller has ended after its third attempt raised while the other
\* caller holds a connection
C6_Witness ==
  \E c, d \in Callers :
    /\ c # d
    /\ pc[c] = "done"
    /\ exit[c] = "raise"
    /\ attempt[c] = max_retries - 1
    /\ conn[d]
    /\ pool_used = 1

\* the tables are those of pre plus Person id with all of P's children
StoreIsPrePlus(pre, id, P) ==
  /\ id \notin DOMAIN pre[1]
  /\ DOMAIN persons = DOMAIN pre[1] \cup {id}
  /\ \A i \in DOMAIN pre[1] : persons[i] = pre[1][i]
  /\ persons[id].id = id
  /\ SameScalars(persons[id], P)
  /\ contact_info = pre[2] (+) ContactRowsOf(P, id)
  /\ documents = pre[3] (+) DocRowsOf(P, id)

\* C7: add_record is atomic.  In a call in which no commit raised, whatever
\* insert step fails: either the Person row and all of its contact and
\* document rows are committed, by one commit, and the id is returned, or
\* the tables are left exactly as they were before the call and None is
\* returned; a Person or children alone are never visible.
C7_AddAtomic ==
  \A c \in Callers :
    (call[c].op = "add_record" /\ ~hist[c].commit_raised)
      => /\ hist[c].commits \in {0, 1}
         /\ hist[c].commits = 0 =>
              <<persons, contact_info, documents>> = hist[c].pre
         /\ hist[c].commits = 1 =>
              \E id \in Ids : StoreIsPrePlus(hist[c].pre, id, call[c].data)
         /\ pc[c] = "done" =>
              /\ ret[c].st = "returned"
              /\ ~ret[c].isNone <=> hist[c].commits = 1
              /\ ~ret[c].isNone =>
                   StoreIsPrePlus(hist[c].pre, ret[c].v, call[c].data)

\* an attempt of add_record has failed after it had inserted the Person and
\* a child, with another Person in the tables
C7_Witness ==
  \E c \in Callers :
    /\ call[c].op = "add_record"
    /\ ~hist[c].commit_raised
    /\ pc[c] = "finally"
    /\ exit[c] = "raise"
    /\ person_id[c] # 0
    /\ ip[c] > 2
    /\ DOMAIN hist[c].pre[1] # {}

\* C8: once delete_record(id) has returned True, no persons row with that
\* id and no contact_info or documents row of that Person remains,
\* get_record(id) returns None, and every other Person and its children
\* are as before the call.
C8_DeleteRemovesAll ==
  \A c \in Callers :
    (Done(c, "delete_record") /\ ReturnedValue(c) /\ ret[c].v = TRUE)
      => LET id == call[c].id
             pre == hist[c].pre
         IN  /\ id \notin DOMAIN persons
             /\ OfPerson(contact_info, id) = EmptyBag
             /\ OfPerson(documents, id) = EmptyBag
             /\ get_record_now(id) = Returned(NoValue)
             /\ DOMAIN persons = DOMAIN pre[1] \ {id}
             /\ \A i \in DOMAIN persons : persons[i] = pre[1][i]
             /\ contact_info = NotOfPerson(pre[2], id)
             /\ documents = NotOfPerson(pre[3], id)

\* delete_record has returned True for a Person that had contacts and a
\* document, while another Person with contacts stays
C8_Witness ==
  \E c \in Callers :
    /\ Done(c, "delete_record") /\ ReturnedValue(c) /\ ret[c].v = TRUE
    /\ call[c].id \in DOMAIN hist[c].pre[1]
    /\ OfPerson(hist[c].pre[2], call[c].id) # EmptyBag
    /\ OfPerson(hist[c].pre[3], call[c].id) # EmptyBag
    /\ DOMAIN persons # {}
    /\ contact_info # EmptyBag

LowerSeq(str) == [i \in DOMAIN str |-> Lower(str[i])]

\* str contains sub as a substring, compared case-insensitively
ContainsIgnoreCase(str, sub) ==
  \E i \in 0..(Len(str) - Len(sub)) :
    SubSeq(LowerSeq(str), i + 1, i + Len(sub)) = LowerSeq(sub)

\* C9: for every state of the tables and every non-empty q (any
\* characters), search_records(q) returns exactly the Persons whose
\* full_name contains q as a substring, compared case-insensitively.
C9_SearchIsLiteralSubstring ==
  \A c \in Callers :
    (Done(c, "search_records") /\ ~hist[c].injected /\ call[c].q # <<>>)
      => /\ ret[c].st = "returned"
         /\ ~ret[c].isNone
         /\ {ret[c].v[i].id : i \in DOMAIN ret[c].v}
              = {i \in DOMAIN persons :
                   ContainsIgnoreCase(persons[i].full_name, call[c].q)}
         /\ Len(ret[c].v) = Cardinality({ret[c].v[i].id : i \in DOMAIN ret[c].v})

\* caller c's get_all_records has ended without a failure
GotAll(c) == Done(c, "get_all_records") /\ exit[c] = "return"

\* C10: get_all_records returns the Persons strictly in reverse order of
\* insertion (ids are given in insertion order).
C10_ReverseInsertionOrder ==
  \A c \in Callers :
    GotAll(c)
      => /\ {ret[c].v[i].id : i \in DOMAIN ret[c].v} = DOMAIN persons
         /\ \A i, j \in DOMAIN ret[c].v :
              i < j => ret[c].v[i].id > ret[c].v[j].id

\* C10 (amended): get_all_records returns every Person once, in
\* non-increasing order of created_at: of two Persons with different
\* created_at the newer comes first, Persons with equal created_at come in
\* either order.
C10_CreatedAtDescending ==
  \A c \in Callers :
    GotAll(c)
      => /\ {ret[c].v[i].id : i \in DOMAIN ret[c].v} = DOMAIN persons
         /\ Len(ret[c].v) = Cardinality(DOMAIN persons)
         /\ \A i, j \in DOMAIN ret[c].v :
              /\ i < j => ret[c].v[i].created_at >= ret[c].v[j].created_at
              /\ ret[c].v[i].created_at > ret[c].v[j].created_at => i < j

\* get_all_records has returned two Persons created at different times
C10_Witness ==
  \E c \in Callers :
    /\ GotAll(c)
    /\ Len(ret[c].v) = 2
    /\ ret[c].v[1].created_at > ret[c].v[2].created_at

\* the persons.id caller d's add_record holds: the one its attempt drew,
\* or the one the call returned (0: none)
HeldId(d) ==
  IF call[d].op # "add_record" THEN 0
  ELSE IF pc[d] = "done"
    THEN IF ReturnedValue(d) THEN ret[d].v ELSE 0
  ELSE person_id[d]

\* caller c's add_record draws its id in this step
DrawsNewId(c) ==
  /\ call[c].op = "add_record"
  /\ person_id'[c] # 0
  /\ person_id'[c] # person_id[c]

\* C11: under concurrent add_record callers, in any interleaving, the id
\* of a successful call differs from the id of every other successful call
\* and, when it is drawn, from the id of every Person in the store and from
\* the id every other add_record holds.
C11_DistinctIds ==
  /\ [](\A c, d \in Callers :
          (c # d /\ HeldId(c) # 0 /\ HeldId(d) # 0) => HeldId(c) # HeldId(d))
  /\ [][\A c \in Callers :
          DrawsNewId(c)
            => /\ person_id'[c] \notin DOMAIN persons
               /\ \A d \in Callers \ {c} : person_id'[c] # HeldId(d)]_vars

\* two concurrent add_record calls have both returned an id
C11_Witness ==
  \A c \in Callers : Done(c, "add_record") /\ ReturnedValue(c)

\* C12: create_tables drops and recreates only the persons table; a
\* contact_info or documents table that exists is left in place, with its
\* rows, by the call.
C12_ChildTablesLeftInPlace ==
  \A c \in Callers :
    (Done(c, "create_tables") /\ exit[c] = "return"
       /\ ~hist[c].commit_raised)
      => /\ persons = <<>>
         /\ contact_info = hist[c].pre[2]
         /\ documents = hist[c].pre[3]

\* C13: create_tables runs once, when the repository is constructed at
\* process startup (the state the model starts in), and no later run of
\* the script executes it again.
C13_CreateTablesOnlyAtStartup ==
  \A c \in Callers : call[c].op # "create_tables"

CrudMethods ==
  {"add_record", "get_all_records", "search_records", "update_record",
   "delete_record", "delete_all_records"}

\* C17: the authenticated flag starts False, becomes True only in a run in
\* which the Login button was clicked with the password equal to the
\* shared secret, and becomes False again only by logout; a run in which
\* the flag is False ends at the login form, and no CRUD method of the
\* repository is called while the flag is False.
C17_AuthGate ==
  /\ ~Authenticated(session_state)
  /\ [](/\ script \in {"create_tables", "sidebar", "page"}
             => Authenticated(session_state)
        /\ call[Session].op \in CrudMethods
             => Authenticated(session_state) /\ script = "page")
  /\ [][/\ (~Authenticated(session_state) /\ Authenticated(session_state'))
             => /\ script = "login_form"
                /\ input.login
                /\ input.password = WEB_PASS
        /\ (Authenticated(session_state) /\ ~Authenticated(session_state'))
             => script = "sidebar" /\ input.logout
        /\ (script = "login_form" /\ ~Authenticated(session_state')
              /\ script' # script)
             => script' = "waiting"]_vars

\* the session has logged in, and a page of it has added a record
C17_Witness ==
  /\ Authenticated(session_state)
  /\ script = "page"
  /\ Done(Session, "add_record")
  /\ ReturnedValue(Session)

\* C14: in every state of the committed tables, after any interleaving of
\* add_record, update_record, delete_record, delete_all_records and
\* create_tables, failed and retried calls included, every contact_info
\* row and every documents row references a persons row that exists.
C14_NoOrphans ==
  /\ \A r \in BagToSet(contact_info) : r.person_id \in DOMAIN persons
  /\ \A r \in BagToSet(documents) : r.person_id \in DOMAIN persons

\* one caller has deleted Person 1 while the other has added a Person with
\* contacts, and both calls have ended
C14_Witness ==
  /\ \A c \in Callers : pc[c] = "done"
  /\ \E c \in Callers : call[c].op = "delete_record" /\ call[c].id = 1
  /\ 1 \notin DOMAIN persons
  /\ contact_info # EmptyBag

\* C15: in every state of the committed tables every persons row has a
\* non-empty full_name, father_name, mother_name, nid, permanent_address
\* and present_address, whoever called add_record or update_record.
C15_MandatoryFieldsNonEmpty ==
  \A i \in DOMAIN persons :
    /\ persons[i].full_name # <<>>
    /\ persons[i].father_name # ""
    /\ persons[i].mother_name # ""
    /\ persons[i].nid # ""
    /\ persons[i].permanent_address # ""
    /\ persons[i].present_address # ""

\* the committed tables s hold Person id with exactly payload P's scalar
\* fields, contacts and documents
RecordIs(s, id, P) ==
  /\ SameScalars(s[1][id], P)
  /\ OfPerson(s[2], id) = ContactRowsOf(P, id)
  /\ OfPerson(s[3], id) = DocRowsOf(P, id)

\* caller c's update_record commits in this step and goes on to return
\* True, after the other caller's update_record of the same Person has
\* committed without an error; neither call met a failed commit
CommitsLast(c) ==
  /\ call[c].op = "update_record"
  /\ pc[c] = "commit"
  /\ exit'[c] = "return"
  /\ hist'[c].commits = 1
  /\ ~hist'[c].commit_raised
  /\ call[c].id \in DOMAIN persons'
  /\ \E d \in Callers \ {c} :
       /\ call[d].op = "update_record"
       /\ call[d].id = call[c].id
       /\ hist[d].commits = 1
       /\ ~hist[d].commit_raised

\* C16: when two concurrent update_record calls on the same id both
\* succeed, whatever the interleaving, the record (scalar fields, contacts
\* and documents) equals entirely the payload of the call that committed
\* last, never a mixture of the two payloads.
C16_LastCommitWins ==
  [][\A c \in Callers :
       CommitsLast(c)
         => RecordIs(<<persons, contact_info, documents>>',
                     call[c].id, call[c].data)]_vars

\* no "+ Add" button has been pressed in the session: every input count
\* is still 1 and no 'add_' flag is set
NoAddPressed(ss) ==
  \A t \in ContactTypes :
    /\ DictGet(ss, CountKey(t), 1) = 1
    /\ ~DictGet(ss, AddKey(t), FALSE)

\* the edit form of the record card is saved in this step
SavesEdit == script = "cards" /\ script' = "update"

\* C18: when a stored record with any number of mobile, whatsapp, facebook
\* or website values is opened in the edit form, in a session where no
\* "+ Add" button has been pressed, and saved with no contact field
\* changed, the payload passed to update_record carries all of the
\* record's contact values, and after the update the record's contacts
\* equal their contents before the edit.
C18_EditPreservesContacts ==
  /\ [][(SavesEdit /\ NoAddPressed(session_state))
          => \A t \in ContactTypes :
               call'[Session].data[ContactKey(t)] = records[1][ContactKey(t)]
       ]_vars
  /\ []((/\ script = "update"
         /\ Done(Session, "update_record")
         /\ ReturnedValue(Session)
         /\ ret[Session].v
         /\ NoAddPressed(session_state)
         /\ call[Session].id \in DOMAIN persons)
          => OfPerson(contact_info, call[Session].id)
               = OfPerson(hist[Session].pre[2], call[Session].id))

\* C19: update_record(id, P) returns True only if, once it has committed,
\* a Person row with that id exists and carries P's fields; when no Person
\* row with that id exists it returns False and leaves the store
\* unchanged, for every payload P, one with all child lists empty
\* included.
C19_UpdateTrueOnlyIfPersonExists ==
  \A c \in Callers :
    (Done(c, "update_record") /\ ReturnedValue(c))
      => /\ ret[c].v
           => /\ call[c].id \in DOMAIN persons
              /\ SameScalars(persons[call[c].id], call[c].data)
         /\ call[c].id \notin DOMAIN hist[c].pre[1]
           => /\ ~ret[c].v
              /\ store = hist[c].pre

\* C20: retries have exactly-once effect.  Whatever attempts of an
\* add_record call failed, at acquire, in the operation or at commit: no
\* more than one commit of the call is applied; when the call returns an
\* id the tables are those before the call plus exactly that one Person
\* with its children; when it returns None (the retries are exhausted, or
\* the error is not retried) the tables are as before the call.
C20_ExactlyOnce ==
  \A c \in Callers :
    call[c].op = "add_record"
      => /\ hist[c].commits <= 1
         /\ pc[c] = "done"
              => IF ret[c].isNone
                   THEN store = hist[c].pre
                   ELSE StoreIsPrePlus(hist[c].pre, ret[c].v, call[c].data)

=============================================================================
